---- MODULE Spec2Model ----
(***************************************************************************)
(* Model of the Othello move engine of src/go/othello.go: the Board with   *)
(* its capture scan and move execution, the two evaluators, the MoveList   *)
(* selection and the fixed-depth look-ahead (ExpandEvalTree).               *)
(*                                                                         *)
(* Positions are <<x, y>> with x, y in 1..8 as in the Go Position type     *)
(* (Go p[0] is p[1] here); the Pieces grid is indexed [y-1][x-1], 0-based, *)
(* as the Go array is.                                                     *)
(*                                                                         *)
(* A Go loop whose iterations run in order over a range lo..hi is written  *)
(* as a recursion that splits the range in two, the left half first: the   *)
(* iterations still happen one after the other, in the loop's order, and   *)
(* the evaluation nests only log(hi - lo) deep.  Where the iterations pass *)
(* a value on (the board, the heap), the left half's result is bound by a  *)
(* quantifier over a one-element set, which is evaluated before the right  *)
(* half starts, as the statements of the loop are.                         *)
(***************************************************************************)
EXTENDS Integers, Sequences, FiniteSets, TLC

\* ------------------------------------------------------------------ bounds
\* successful Exec calls played on the game board
MaxPlies == 1
\* depths ExpandEvalTree is called with (0..MaxDepth)
MaxDepth == 2
\* length of the scored move lists handed to GetBestEvalIndex
MaxLen == 3
\* scores of those lists range over -MaxScore..MaxScore
MaxScore == 1

\* --------------------------------------------------------------- constants
\* side of the board: Pieces [8][8]Piece
N == 8

Empty == 0
Black == 1
White == 2

Piece == {Empty, Black, White}
Players == {Black, White}

ScoreRows ==
  << <<15, 2, 5, 5, 5, 5, 2, 15>>,
     <<2, 0, 1, 1, 1, 1, 0, 2>>,
     <<5, 1, 1, 1, 1, 1, 1, 5>>,
     <<5, 1, 1, 1, 1, 1, 1, 5>>,
     <<5, 1, 1, 1, 1, 1, 1, 5>>,
     <<5, 1, 1, 1, 1, 1, 1, 5>>,
     <<2, 0, 1, 1, 1, 1, 0, 2>>,
     <<15, 2, 5, 5, 5, 5, 2, 15>> >>

\* ScoreMap[y][x], 0-based like the Go array
ScoreMap == [y \in 0..(N-1) |-> [x \in 0..(N-1) |-> ScoreRows[y+1][x+1]]]

\* ------------------------------------------------------------------ pieces
\* a mutant of Opposite: the Black case returns Black
OppositeStuck(p) ==
  CASE p = White -> Black
    [] p = Black -> Black
    [] OTHER -> Empty

Opposite(p) ==
  CASE p = White -> Black
    [] p = Black -> White
    [] OTHER -> Empty

\* --------------------------------------------------------------- positions
Valid(p) ==
  LET ok(i) == 1 <= i /\ i <= 8
  IN  ok(p[1]) /\ ok(p[2])

Pass(p) == ~Valid(p)

translate(p, d) == <<p[1] + d[1], p[2] + d[2]>>

\* init(): x outer, y inner, (0,0) skipped
dirs ==
  << <<-1, -1>>, <<-1, 0>>, <<-1, 1>>, <<0, -1>>,
     <<0, 1>>, <<1, -1>>, <<1, 0>>, <<1, 1>> >>

\* ------------------------------------------------------------------- board
\* *b.At(p)
At(b, p) == b.Pieces[p[2] - 1][p[1] - 1]

Get(b, p) == At(b, p)

\* *b.At(p) = v
SetAt(b, p, v) ==
  [b EXCEPT !.Pieces[p[2] - 1][p[1] - 1] = v]

\* one turn of the loop, p already translated; the turns after it follow
\* with p translated again and p appended to caps
RECURSIVE findCapturesFrom(_, _, _, _, _)
findCapturesFrom(b, m, dir, p, caps) ==
  CASE ~Valid(p) -> <<>>
    [] Valid(p) /\ At(b, p) = m.As -> caps
    [] Valid(p) /\ At(b, p) = Empty -> <<>>
    [] OTHER -> findCapturesFrom(b, m, dir, translate(p, dir), Append(caps, p))

\* a mutant of findCaptures: the run is kept when the scan leaves the board
RECURSIVE findCapturesKeepAtEdgeFrom(_, _, _, _, _)
findCapturesKeepAtEdgeFrom(b, m, dir, p, caps) ==
  CASE ~Valid(p) -> caps
    [] Valid(p) /\ At(b, p) = m.As -> caps
    [] Valid(p) /\ At(b, p) = Empty -> <<>>
    [] OTHER -> findCapturesKeepAtEdgeFrom(b, m, dir, translate(p, dir),
                                           Append(caps, p))

findCapturesKeepAtEdge(b, m, dir) ==
  findCapturesKeepAtEdgeFrom(b, m, dir, translate(m.Where, dir), <<>>)

findCaptures(b, m, dir) ==
  findCapturesFrom(b, m, dir, translate(m.Where, dir), <<>>)

\* for _, dir := range dirs { captures = append(captures, findCaptures...) }
RECURSIVE tryMoveDirs(_, _, _, _)
tryMoveDirs(b, m, lo, hi) ==
  CASE lo > hi -> <<>>
    [] lo = hi -> findCaptures(b, m, dirs[lo])
    [] OTHER -> tryMoveDirs(b, m, lo, (lo + hi) \div 2)
                  \o tryMoveDirs(b, m, ((lo + hi) \div 2) + 1, hi)

\* the result pair (captures, err); err "" is nil
tryMove(b, m) ==
  IF Get(b, m.Where) # Empty
    THEN [captures |-> <<>>, err |-> "occupied"]
    ELSE LET captures == tryMoveDirs(b, m, 1, Len(dirs))
         IN  IF Len(captures) < 1
               THEN [captures |-> <<>>, err |-> "nocapture"]
               ELSE [captures |-> captures, err |-> ""]

\* for _, p := range ps { *b.At(p) = v }
RECURSIVE SetAll(_, _, _, _, _)
SetAll(b, ps, lo, hi, v) ==
  CASE lo > hi -> b
    [] lo = hi -> SetAt(b, ps[lo], v)
    [] OTHER ->
         CHOOSE r \in {SetAll(l, ps, ((lo + hi) \div 2) + 1, hi, v) :
                         l \in {SetAll(b, ps, lo, (lo + hi) \div 2, v)}} :
           TRUE

\* the board after the call and the error
realMove(b, m) ==
  LET t == tryMove(b, m)
  IN  IF t.err # ""
        THEN [board |-> b, err |-> t.err]
        ELSE [board |-> SetAll(b, Append(t.captures, m.Where), 1,
                               Len(t.captures) + 1, m.As),
              err |-> ""]

\* row-major scan: y outer, x inner, both 1..8
ScanPos(i) == <<((i - 1) % N) + 1, ((i - 1) \div N) + 1>>

\* the moves the two loops try, in the order they try them
ScanMoves(b) == [i \in 1..(N * N) |-> [Where |-> ScanPos(i), As |-> b.Next]]

\* a mutant of ValidMoves: x outer, y inner
ValidMovesColumns(b) ==
  SelectSeq([i \in 1..(N * N) |->
               [Where |-> <<ScanPos(i)[2], ScanPos(i)[1]>>, As |-> b.Next]],
            LAMBDA m : tryMove(b, m).err = "")

\* those of the tried moves that tryMove accepts, appended in scan order
ValidMoves(b) == SelectSeq(ScanMoves(b), LAMBDA m : tryMove(b, m).err = "")

\* a mutant of Exec: next advances whether or not the move was legal
ExecAlwaysAdvances(b, m) ==
  LET r == IF ~Pass(m.Where)
             THEN realMove(b, m)
             ELSE IF Len(ValidMoves(b)) > 0
                    THEN [board |-> b, err |-> "illegalpass"]
                    ELSE [board |-> b, err |-> ""]
  IN  [board |-> [r.board EXCEPT !.Next = Opposite(r.board.Next)], err |-> r.err]

\* a mutant of Exec: the pass test is inverted
ExecPassInverted(b, m) ==
  LET r == IF ~Pass(m.Where)
             THEN realMove(b, m)
             ELSE IF Len(ValidMoves(b)) = 0
                    THEN [board |-> b, err |-> "illegalpass"]
                    ELSE [board |-> b, err |-> ""]
  IN  IF r.err # ""
        THEN r
        ELSE [board |-> [r.board EXCEPT !.Next = Opposite(r.board.Next)],
              err |-> ""]

\* the board after the call and the error
Exec(b, m) ==
  LET r == IF ~Pass(m.Where)
             THEN realMove(b, m)
             ELSE IF Len(ValidMoves(b)) > 0
                    THEN [board |-> b, err |-> "illegalpass"]
                    ELSE [board |-> b, err |-> ""]
  IN  IF r.err # ""
        THEN r
        ELSE [board |-> [r.board EXCEPT !.Next = Opposite(r.board.Next)],
              err |-> ""]

\* --------------------------------------------------------------- evaluators
\* the cells in the order the two loops visit them: y outer, x inner, 0-based
ScanCell(i) == [y |-> (i - 1) \div N, x |-> (i - 1) % N]

\* the loops' switch, for the cell visited i-th
GetEvalTerm(b, i) ==
  LET c == ScanCell(i)
  IN  CASE b.Pieces[c.y][c.x] = White -> 0 - ScoreMap[c.y][c.x]
        [] b.Pieces[c.y][c.x] = Black -> ScoreMap[c.y][c.x]
        [] OTHER -> 0

RECURSIVE GetEvalRange(_, _, _)
GetEvalRange(b, lo, hi) ==
  IF lo > hi THEN 0
  ELSE IF lo = hi THEN GetEvalTerm(b, lo)
  ELSE GetEvalRange(b, lo, (lo + hi) \div 2)
         + GetEvalRange(b, ((lo + hi) \div 2) + 1, hi)

\* a mutant of GetEval: every disc weighs 1
GetEvalUnweighted(b) ==
  LET count(s) == Cardinality({c \in (0..(N-1)) \X (0..(N-1)) : b.Pieces[c[1]][c[2]] = s})
  IN  count(Black) - count(White)

GetEval(b) == GetEvalRange(b, 1, N * N)

EvalTerm(b, i) ==
  LET c == ScanCell(i)
  IN  CASE b.Pieces[c.y][c.x] = White -> 0 - 1
        [] b.Pieces[c.y][c.x] = Black -> 1
        [] OTHER -> 0

RECURSIVE EvalRange(_, _, _)
EvalRange(b, lo, hi) ==
  IF lo > hi THEN 0
  ELSE IF lo = hi THEN EvalTerm(b, lo)
  ELSE EvalRange(b, lo, (lo + hi) \div 2)
         + EvalRange(b, ((lo + hi) \div 2) + 1, hi)

\* b.Eval(): the board with EvalScore set
Eval(b) == [b EXCEPT !.EvalScore = EvalRange(b, 1, N * N)]

\* ----------------------------------------------------------------- the heap
\* Boards reached through *Board pointers and the backing arrays of MoveList
\* slices live in a heap h = [boards, arrays]: a pointer is an index into
\* h.boards, a slice is an index into h.arrays, and 0 is nil. A Move is
\* [Where, As, MovedBoard], MovedBoard a pointer.
NewHeap(b) == [boards |-> <<b>>, arrays |-> <<>>]

\* the MoveList a slice names
ListOf(h, ml) == IF ml = 0 THEN <<>> ELSE h.arrays[ml]

\* b.Moves = b.ValidMoves(): a fresh slice, nil when nothing was appended
SetValidMoves(h, a) ==
  LET found == ValidMoves(h.boards[a])
      moves == [i \in 1..Len(found) |->
                 [Where |-> found[i].Where, As |-> found[i].As, MovedBoard |-> 0]]
  IN  IF Len(moves) = 0
        THEN [h EXCEPT !.boards[a].Moves = 0]
        ELSE [boards |-> [h.boards EXCEPT ![a].Moves = Len(h.arrays) + 1],
              arrays |-> Append(h.arrays, moves)]

\* a mutant of GetMovedBoard: pointer receiver, Exec runs on the base board
GetMovedBoardInPlace(h, a, m) ==
  LET moved == Exec(h.boards[a], m).board
  IN  [heap |-> [h EXCEPT !.boards[a] = moved], board |-> moved]

\* value receiver: Exec runs on a copy of the Board, its error dropped; the
\* copy is returned. The result is the heap and the returned Board value.
GetMovedBoard(h, a, m) ==
  [heap |-> h, board |-> Exec(h.boards[a], m).board]

\* one iteration: board := baseBoard.GetMovedBoard((*ml)[index]);
\* board.Eval(); (*ml)[index].MovedBoard = &board
GenMovedBoardAt(h, ml, base, index) ==
  LET g == GetMovedBoard(h, base, h.arrays[ml][index])
      board == Eval(g.board)
      at == Len(g.heap.boards) + 1
  IN  [boards |-> Append(g.heap.boards, board),
       arrays |-> [g.heap.arrays EXCEPT ![ml][index].MovedBoard = at]]

\* for index, _ := range *ml
RECURSIVE GenMovedBoardsRange(_, _, _, _, _)
GenMovedBoardsRange(h, ml, base, lo, hi) ==
  CASE lo > hi -> h
    [] lo = hi -> GenMovedBoardAt(h, ml, base, lo)
    [] OTHER ->
         CHOOSE r \in {GenMovedBoardsRange(l, ml, base, ((lo + hi) \div 2) + 1, hi) :
                         l \in {GenMovedBoardsRange(h, ml, base, lo, (lo + hi) \div 2)}} :
           TRUE

GenMovedBoards(h, ml, base) ==
  GenMovedBoardsRange(h, ml, base, 1, Len(ListOf(h, ml)))

ScoreAt(h, ml, i) == h.boards[h.arrays[ml][i].MovedBoard].EvalScore

\* a mutant of BestFrom: >= and <=, so the last of equal scores wins
RECURSIVE BestFromLastTie(_, _, _, _, _, _)
BestFromLastTie(h, ml, forPlayer, i, index, m) ==
  IF i > Len(ListOf(h, ml)) THEN index
  ELSE LET s == ScoreAt(h, ml, i)
           better == IF forPlayer = Black THEN s >= m ELSE s <= m
       IN  IF better
             THEN BestFromLastTie(h, ml, forPlayer, i + 1, i - 1, s)
             ELSE BestFromLastTie(h, ml, forPlayer, i + 1, index, m)

\* the loops over i = 1 .. len-1 (Go), here i = 2 .. Len; the pair (index, m)
RECURSIVE BestFrom(_, _, _, _, _, _)
BestFrom(h, ml, forPlayer, i, index, m) ==
  IF i > Len(ListOf(h, ml)) THEN index
  ELSE LET s == ScoreAt(h, ml, i)
           better == IF forPlayer = Black THEN s > m ELSE s < m
       IN  IF better
             THEN BestFrom(h, ml, forPlayer, i + 1, i - 1, s)
             ELSE BestFrom(h, ml, forPlayer, i + 1, index, m)

\* the Go index (0-based), -1 for none
GetBestEvalIndex(h, ml, forPlayer) ==
  IF Len(ListOf(h, ml)) > 0
    THEN BestFrom(h, ml, forPlayer, 2, 0, ScoreAt(h, ml, 1))
    ELSE 0 - 1

RECURSIVE ExpandEvalTree(_, _, _)
RECURSIVE ExpandRange(_, _, _, _, _)

\* for _, m := range b.Moves { m.MovedBoard.ExpandEvalTree(depth-1) }
ExpandRange(h, ml, lo, hi, depth) ==
  CASE lo > hi -> h
    [] lo = hi -> ExpandEvalTree(h, h.arrays[ml][lo].MovedBoard, depth - 1)
    [] OTHER ->
         CHOOSE r \in {ExpandRange(l, ml, ((lo + hi) \div 2) + 1, hi, depth) :
                         l \in {ExpandRange(h, ml, lo, (lo + hi) \div 2, depth)}} :
           TRUE

\* a mutant of ExpandChildren: the loop expands copies of the child boards
\* (board := *m.MovedBoard), so their values never reach the moves
ExpandChildrenOnCopies(h, ml, depth) == h

ExpandChildren(h, ml, depth) ==
  ExpandRange(h, ml, 1, Len(ListOf(h, ml)), depth)

ExpandEvalTree(h, a, depth) ==
  IF depth = 0
    THEN [h EXCEPT !.boards[a] = Eval(h.boards[a])]
    ELSE LET h1 == SetValidMoves(h, a)
             ml == h1.boards[a].Moves
         IN  IF Len(ListOf(h1, ml)) = 0 THEN h1
             ELSE LET h2 == GenMovedBoards(h1, ml, a)
                      h3 == ExpandChildren(h2, ml, depth)
                      b == h3.boards[a]
                      bestIndex == GetBestEvalIndex(h3, b.Moves, b.Next)
                  IN  [h3 EXCEPT !.boards[a] =
                         IF bestIndex < 0
                           THEN Eval(b)
                           ELSE [b EXCEPT !.EvalScore =
                                   ScoreAt(h3, b.Moves, bestIndex + 1)]]

\* ------------------------------------------------------------ the positions
\* a Board value as json.Unmarshal leaves it: EvalScore 0
MkBoard(blacks, whites, next) ==
  [Pieces |-> [y \in 0..(N-1) |-> [x \in 0..(N-1) |->
                 IF <<x + 1, y + 1>> \in blacks THEN Black
                 ELSE IF <<x + 1, y + 1>> \in whites THEN White
                 ELSE Empty]],
   Next |-> next,
   EvalScore |-> 0,
   Moves |-> 0]

AllPos == (1..N) \X (1..N)

\* the standard opening
StartBoard(next) == MkBoard({<<5, 4>>, <<4, 5>>}, {<<4, 4>>, <<5, 5>>}, next)

\* Dark (4,4), Light (5,4)
PairBoard(next) == MkBoard({<<4, 4>>}, {<<5, 4>>}, next)

\* Dark in the corner, Light beside it: Light cannot move, Dark can
CornerBoard(next) == MkBoard({<<1, 1>>}, {<<2, 1>>}, next)

\* no empty cell
FullBoard(next) ==
  MkBoard({p \in AllPos : p[2] < N}, {p \in AllPos : p[2] = N}, next)

\* one empty cell, (1,1): Dark captures along the row and the diagonal, the
\* column runs off the board; Light captures nothing
NearFullWhites ==
  {<<x, 1>> : x \in 2..7} \cup {<<1, y>> : y \in 2..N} \cup {<<k, k>> : k \in 2..4}

NearFullBoard(next) ==
  MkBoard(AllPos \ (NearFullWhites \cup {<<1, 1>>}), NearFullWhites, next)

InitBoards ==
  {StartBoard(Black), PairBoard(Black), CornerBoard(White),
   FullBoard(White), NearFullBoard(Black), NearFullBoard(White)}

\* positions that are passes (outside [1,8] x [1,8])
PassPos == {<<0, 0>>, <<9, 1>>, <<3, 0>>}

NoMove == [Where |-> <<0, 0>>, As |-> Empty]

\* -------------------------------------------------------------------- state
VARIABLES
  board,   \* the caller's Board
  op,      \* the call in flight: its result is in the other variables
  arg,     \* the Move handed to Exec
  err,     \* the error Exec returned ("" is nil)
  prev,    \* the Board as it was when the call was made
  plies,   \* successful Exec calls so far
  heap,    \* the search's heap: its root is h.boards[1]
  depth,   \* the depth handed to ExpandEvalTree
  ret      \* the integer a call returned

vars == <<board, op, arg, err, prev, plies, heap, depth, ret>>

NoHeap == [boards |-> <<>>, arrays |-> <<>>]

Init ==
  /\ board \in InitBoards
  /\ op = "idle"
  /\ arg = NoMove
  /\ err = ""
  /\ prev = board
  /\ plies = 0
  /\ heap = NoHeap
  /\ depth = 0
  /\ ret = 0

\* b.Exec(m)
DoExec(where, as) ==
  /\ op = "idle"
  /\ \E m \in {[Where |-> where, As |-> as]} :
       /\ \E r \in {Exec(board, m)} :
            /\ r.err = "" => plies < MaxPlies
            /\ board' = r.board
            /\ err' = r.err
            /\ plies' = IF r.err = "" THEN plies + 1 ELSE plies
       /\ arg' = m
  /\ op' = "Exec"
  /\ prev' = board
  /\ UNCHANGED <<heap, depth, ret>>

\* b.Eval()
DoEval ==
  /\ op = "idle"
  /\ board' = Eval(board)
  /\ op' = "Eval"
  /\ prev' = board
  /\ UNCHANGED <<arg, err, plies, heap, depth, ret>>

\* board := game.Board; board.ExpandEvalTree(d);
\* bestIndex := board.Moves.GetBestEvalIndex(board.Next)
DoSearch(d) ==
  /\ op = "idle"
  /\ \E h \in {ExpandEvalTree(NewHeap(board), 1, d)} :
       /\ heap' = h
       /\ ret' = GetBestEvalIndex(h, h.boards[1].Moves, h.boards[1].Next)
  /\ op' = "Search"
  /\ depth' = d
  /\ prev' = board
  /\ UNCHANGED <<board, arg, err, plies>>

\* board.Moves = board.ValidMoves(), on a copy of the caller's Board
DoValidMoves ==
  /\ op = "idle"
  /\ heap' = SetValidMoves(NewHeap(board), 1)
  /\ op' = "ValidMoves"
  /\ prev' = board
  /\ UNCHANGED <<board, arg, err, plies, depth, ret>>

\* b.GetEval()
DoGetEval ==
  /\ op = "idle"
  /\ ret' = GetEval(board)
  /\ op' = "GetEval"
  /\ prev' = board
  /\ UNCHANGED <<board, arg, err, plies, heap, depth>>

\* a MoveList whose moves carry boards with the given scores
ScoredHeap(b, scores) ==
  [boards |-> <<[b EXCEPT !.Moves = IF Len(scores) = 0 THEN 0 ELSE 1]>>
                \o [i \in 1..Len(scores) |-> [b EXCEPT !.EvalScore = scores[i]]],
   arrays |-> IF Len(scores) = 0 THEN <<>>
              ELSE <<[i \in 1..Len(scores) |->
                       [Where |-> ScanPos(i), As |-> b.Next, MovedBoard |-> i + 1]]>>]

ScoreSeqs == UNION {[1..n -> (0 - MaxScore)..MaxScore] : n \in 0..MaxLen}

\* ml.GetBestEvalIndex(forPlayer) on a scored list
DoGetBestEvalIndex(scores, forPlayer) ==
  /\ op = "idle"
  /\ \E h \in {ScoredHeap(board, scores)} :
       /\ heap' = h
       /\ ret' = GetBestEvalIndex(h, h.boards[1].Moves, forPlayer)
  /\ op' = "GetBestEvalIndex"
  /\ arg' = [Where |-> <<0, 0>>, As |-> forPlayer]
  /\ prev' = board
  /\ UNCHANGED <<board, err, plies, depth>>

\* the caller has taken the result and is ready for its next call
Return ==
  /\ op # "idle"
  /\ op' = "idle"
  /\ arg' = NoMove
  /\ err' = ""
  /\ prev' = board
  /\ heap' = NoHeap
  /\ depth' = 0
  /\ ret' = 0
  /\ UNCHANGED <<board, plies>>

Next ==
  \/ \E w \in AllPos \cup PassPos, as \in Players : DoExec(w, as)
  \/ DoEval
  \/ \E d \in 0..MaxDepth : DoSearch(d)
  \/ DoValidMoves
  \/ DoGetEval
  \/ Return

Spec == Init /\ [][Next]_vars

\* the selection alone, over every scored list within the bounds
NextBest ==
  \/ \E scores \in ScoreSeqs, forPlayer \in Players :
       DoGetBestEvalIndex(scores, forPlayer)
  \/ Return

SpecBest == Init /\ [][NextBest]_vars

\* ================================================================== claims
\* The rules as the specification words them, stated over sets of cells and
\* not by the code's scans.
Cell(b, p) == b.Pieces[p[2] - 1][p[1] - 1]

OnBoard(p) == p[1] \in 1..N /\ p[2] \in 1..N

Steps(p, d, k) == <<p[1] + k * d[1], p[2] + k * d[2]>>

Compass == {d \in {0 - 1, 0, 1} \X {0 - 1, 0, 1} : d # <<0, 0>>}

\* going from p in direction d: k opponent discs, then a disc of side s
Sandwich(b, p, s, d, k) ==
  /\ OnBoard(Steps(p, d, k + 1))
  /\ Cell(b, Steps(p, d, k + 1)) = s
  /\ \A j \in 1..k : Cell(b, Steps(p, d, j)) = Opposite(s)

Captured(b, p, s) ==
  UNION {{Steps(p, d, j) : j \in 1..k} :
           <<d, k>> \in {dk \in Compass \X (1..(N - 2)) :
                           Sandwich(b, p, s, dk[1], dk[2])}}

LegalAt(b, p, s) ==
  /\ Cell(b, p) = Empty
  /\ \E d \in Compass, k \in 1..(N - 2) : Sandwich(b, p, s, d, k)

LegalSet(b) == {p \in AllPos : LegalAt(b, p, b.Next)}

Count(b, s) == Cardinality({p \in AllPos : Cell(b, p) = s})

Discs(b) == Count(b, Black) + Count(b, White)

SameGrid(b, c) == b.Pieces = c.Pieces /\ b.Next = c.Next

\* C1: a legal placement (target empty, at least one capture) succeeds; it sets
\* the target and every sandwiched opponent disc to the mover's colour and no
\* other cell, hands the turn to the other side, raises the mover's count by
\* 1 + captures and never lowers the number of discs.
C1_ExecFlipsExactlyTheCaptures ==
  (op = "Exec" /\ ~Pass(arg.Where) /\ LegalAt(prev, arg.Where, arg.As)) =>
    LET caps == Captured(prev, arg.Where, arg.As)
    IN  /\ err = ""
        /\ \A q \in AllPos :
             Cell(board, q) = IF q = arg.Where \/ q \in caps
                                THEN arg.As ELSE Cell(prev, q)
        /\ board.Next = Opposite(prev.Next)
        /\ Count(board, arg.As) = Count(prev, arg.As) + 1 + Cardinality(caps)
        /\ Discs(board) >= Discs(prev)

\* a placement that captured along the row and the diagonal while the column
\* ran off the board
C1_Witness ==
  /\ op = "Exec" /\ err = "" /\ ~Pass(arg.Where)
  /\ Cardinality(Captured(prev, arg.Where, arg.As)) >= 9
  /\ \E q \in AllPos : Cell(prev, q) = Opposite(arg.As) /\ Cell(board, q) = Cell(prev, q)

RowMajorBefore(p, q) == p[2] < q[2] \/ (p[2] = q[2] /\ p[1] < q[1])

FoundMoves == ListOf(heap, heap.boards[1].Moves)

\* C2: ValidMoves lists exactly the empty positions with a sandwich in some
\* direction, each once, as moves of the side to move, in row-major order;
\* every listed move passes tryMove with at least one capture.
C2_ValidMovesAreTheLegalPlacements ==
  op = "ValidMoves" =>
    /\ {FoundMoves[i].Where : i \in 1..Len(FoundMoves)} = LegalSet(prev)
    /\ Len(FoundMoves) = Cardinality(LegalSet(prev))
    /\ \A i \in 1..Len(FoundMoves) :
         /\ FoundMoves[i].As = prev.Next
         /\ tryMove(prev, FoundMoves[i]).err = ""
         /\ Len(tryMove(prev, FoundMoves[i]).captures) >= 1
    /\ \A i, j \in 1..Len(FoundMoves) :
         i < j => RowMajorBefore(FoundMoves[i].Where, FoundMoves[j].Where)

\* a list with moves in several rows and several in one row
C2_Witness ==
  /\ op = "ValidMoves"
  /\ Len(FoundMoves) >= 4
  /\ \E i, j \in 1..Len(FoundMoves) : FoundMoves[i].Where[2] # FoundMoves[j].Where[2]

\* C3: Exec fails in exactly three cases (occupied target, no capture, pass
\* while a placement is legal) and a failed Exec leaves grid and next as
\* they were.
C3_IllegalMoveCases ==
  op = "Exec" =>
    /\ (err # "") <=>
         \/ ~Pass(arg.Where) /\ Cell(prev, arg.Where) # Empty
         \/ ~Pass(arg.Where) /\ Cell(prev, arg.Where) = Empty
              /\ Captured(prev, arg.Where, arg.As) = {}
         \/ Pass(arg.Where) /\ LegalSet(prev) # {}
    /\ err # "" => SameGrid(board, prev)

\* a pass refused after a move was played
C3_Witness ==
  /\ op = "Exec" /\ Pass(arg.Where) /\ err # "" /\ plies >= 1

NoLegalMove(b) == LegalSet(b) = {}

\* C4: with no legal move for the side to move, a pass succeeds, hands the
\* turn to the other side and leaves every cell as it was.
C4_PassWithoutMoves ==
  (op = "Exec" /\ Pass(arg.Where) /\ NoLegalMove(prev)) =>
    /\ err = ""
    /\ board.Next = Opposite(prev.Next)
    /\ board.Next # prev.Next
    /\ board.Pieces = prev.Pieces

\* a pass on a board with one empty cell left, where the other side could move
C4_Witness ==
  /\ op = "Exec" /\ Pass(arg.Where) /\ err = ""
  /\ Count(prev, Empty) = 1
  /\ LegalSet(board) # {}

\* C7: next is always Dark or Light, every cell holds one of the three Piece
\* values, and next changes sides with every successful Exec and with no
\* failed one.
C7_NextAndCellsStayWellFormed ==
  /\ board.Next \in Players
  /\ \A p \in AllPos : Cell(board, p) \in Piece
  /\ op = "Exec" =>
       IF err = ""
         THEN board.Next # prev.Next /\ board.Next = Opposite(prev.Next)
         ELSE board.Next = prev.Next

\* a failed Exec after a successful one
C7_Witness ==
  /\ op = "Exec" /\ err # "" /\ ~Pass(arg.Where) /\ plies >= 1
  /\ board.Next = prev.Next

\* the scores attached to the moves of the root's list
Scores == [i \in 1..Len(FoundMoves) |-> ScoreAt(heap, heap.boards[1].Moves, i)]

MaxOf(S) == CHOOSE v \in S : \A w \in S : w <= v
MinOf(S) == CHOOSE v \in S : \A w \in S : v <= w
Range(f) == {f[i] : i \in DOMAIN f}

\* the most favourable score of a non-empty list: Dark maximizes, Light minimizes
Extremal(f, side) == IF side = Black THEN MaxOf(Range(f)) ELSE MinOf(Range(f))

\* the first position of that score
FirstExtremal(f, side) ==
  CHOOSE i \in DOMAIN f :
    f[i] = Extremal(f, side) /\ \A j \in DOMAIN f : f[j] = Extremal(f, side) => i <= j

\* C5: GetBestEvalIndex is -1 on an empty list; otherwise the smallest index
\* (0-based) holding the maximum score for Dark, the minimum score for Light.
C5_BestIsFirstExtremal ==
  op = "GetBestEvalIndex" =>
    IF Len(Scores) = 0
      THEN ret = 0 - 1
      ELSE ret = FirstExtremal(Scores, arg.As) - 1

\* a tie for the best score, broken towards the earlier move, which is not
\* the first of the list
C5_Witness ==
  /\ op = "GetBestEvalIndex"
  /\ ret >= 1
  /\ \E j \in 1..Len(Scores) : j > ret + 1 /\ Scores[j] = Scores[ret + 1]

\* the legal placements in row-major order
RECURSIVE SortedPos(_)
SortedPos(S) ==
  IF S = {} THEN <<>>
  ELSE LET p == CHOOSE q \in S : \A r \in S \ {q} : RowMajorBefore(q, r)
       IN  <<p>> \o SortedPos(S \ {p})

LegalList(b) == SortedPos(LegalSet(b))

\* the position after side b.Next places at p
Placed(b, p) ==
  LET flipped == Captured(b, p, b.Next) \cup {p}
  IN  [Pieces |-> [y \in 0..(N-1) |-> [x \in 0..(N-1) |->
                     IF <<x + 1, y + 1>> \in flipped THEN b.Next ELSE b.Pieces[y][x]]],
       Next |-> Opposite(b.Next)]

DiscCount(b) == Count(b, Black) - Count(b, White)

\* depth 0 or no legal move: the disc count; otherwise the best child value,
\* Dark maximizing and Light minimizing
RECURSIVE Minimax(_, _)
RECURSIVE MinimaxAmong(_, _, _)
MinimaxAmong(b, d, S) ==
  IF S = {} THEN DiscCount(b)
  ELSE LET vals == {Minimax(Placed(b, p), d - 1) : p \in S}
       IN  IF b.Next = Black THEN MaxOf(vals) ELSE MinOf(vals)

Minimax(b, d) == IF d = 0 THEN DiscCount(b) ELSE MinimaxAmong(b, d, LegalSet(b))

\* the depth-(d-1) values of the children, in the order of the list L
ChildValues(b, d, L) == [i \in 1..Len(L) |-> Minimax(Placed(b, L[i]), d - 1)]

Root == heap.boards[1]

\* the search's answer against the legal moves L and their values v
SearchAgrees(L, v) ==
  /\ (ret = 0 - 1) <=> L = <<>>
  /\ L # <<>> =>
       /\ ret = FirstExtremal(v, prev.Next) - 1
       /\ FoundMoves[ret + 1].Where = L[ret + 1]
       /\ Root.EvalScore = v[ret + 1]
       /\ Root.EvalScore = Extremal(v, prev.Next)

\* C6: at depth d >= 1 the search reports a pass exactly when there is no
\* legal move; otherwise the first legal move in row-major order whose child
\* has the extremal depth-(d-1) minimax value, and the root takes that value.
C6_SearchIsMinimax ==
  (op = "Search" /\ depth >= 1) =>
    \E L \in {LegalList(prev)} :
      \E v \in {ChildValues(prev, depth, L)} : SearchAgrees(L, v)

\* a two-ply search that chose a move other than the first, over a tie
C6_Witness ==
  /\ op = "Search" /\ depth >= 2 /\ ret >= 1

\* the cells of the weight matrix, as [y][x] index pairs
Cells == (0..(N-1)) \X (0..(N-1))
W(c) == ScoreMap[c[1]][c[2]]
IsEdge(c) == c[1] \in {0, N - 1} \/ c[2] \in {0, N - 1}
Corners == {c \in Cells : c[1] \in {0, N - 1} /\ c[2] \in {0, N - 1}}
CornerEdgeNeighbours ==
  {c \in Cells \ Corners : IsEdge(c) /\ \E k \in Corners :
     (c[1] = k[1] /\ (c[2] - k[2]) \in {0 - 1, 1}) \/
     (c[2] = k[2] /\ (c[1] - k[1]) \in {0 - 1, 1})}
Edge == {c \in Cells : IsEdge(c)}
OtherEdge == Edge \ (Corners \cup CornerEdgeNeighbours)
Interior == {c \in Cells : ~IsEdge(c)}
\* the interior cells diagonal to a corner
CornerDiagonals ==
  {c \in Interior : \E k \in Corners :
     (c[1] - k[1]) \in {0 - 1, 1} /\ (c[2] - k[2]) \in {0 - 1, 1}}

\* the sum of +weight over Dark cells and -weight over Light cells, weight
\* by weight
WeightCount(b, w, s) ==
  Cardinality({c \in Cells : W(c) = w /\ b.Pieces[c[1]][c[2]] = s})

RECURSIVE PositionalOver(_, _)
PositionalOver(b, ws) ==
  IF ws = {} THEN 0
  ELSE LET w == CHOOSE x \in ws : TRUE
       IN  w * (WeightCount(b, w, Black) - WeightCount(b, w, White))
             + PositionalOver(b, ws \ {w})

Positional(b) == PositionalOver(b, {W(c) : c \in Cells})

\* C8 as the specification words it: corners highest, the edge cells next to
\* a corner lowest of all 64 cells, the other edge cells strictly between,
\* the interior one baseline value; the score is the weighted sum.
C8_AsWorded ==
  op = "GetEval" =>
    /\ \A k \in Corners, c \in Cells \ Corners : W(k) > W(c)
    /\ \A e \in CornerEdgeNeighbours, c \in Cells \ CornerEdgeNeighbours : W(e) < W(c)
    /\ \A o \in OtherEdge, k \in Corners, e \in CornerEdgeNeighbours :
         W(e) < W(o) /\ W(o) < W(k)
    /\ \A c, e \in Interior : W(c) = W(e)
    /\ ret = Positional(prev)

\* C8, amended: corners highest; the edge cells next to a corner are the
\* lowest of the edge, not of the board: the interior cells diagonal to a
\* corner hold the lowest weight of all and the rest of the interior holds
\* one baseline value, both below every edge cell; the other edge cells lie
\* strictly between; the score is +weight for Dark, -weight for Light.
C8_Weights ==
  op = "GetEval" =>
    /\ \A k \in Corners, c \in Cells \ Corners : W(k) > W(c)
    /\ \A e \in CornerEdgeNeighbours, c \in Edge \ CornerEdgeNeighbours : W(e) < W(c)
    /\ \A o \in OtherEdge, k \in Corners, e \in CornerEdgeNeighbours :
         W(e) < W(o) /\ W(o) < W(k)
    /\ \A x \in CornerDiagonals, c \in Cells \ CornerDiagonals : W(x) < W(c)
    /\ \A c, e \in Interior \ CornerDiagonals : W(c) = W(e)
    /\ \A c \in Interior, e \in Edge : W(c) < W(e)
    /\ ret = Positional(prev)

\* a positional score in which the weights, not the disc count, decide
C8_Witness ==
  /\ op = "GetEval"
  /\ ret > 0
  /\ DiscCount(prev) < ret

\* C9: a node with no legal move, expanded at depth > 0, ends with its own
\* disc count as its value, whatever EvalScore held before the call.
C9_NoMoveNodeTakesStaticValue ==
  (op = "Search" /\ depth > 0 /\ NoLegalMove(prev)) =>
    /\ Root.EvalScore = DiscCount(prev)
    /\ Root.Moves = 0
    /\ Len(heap.boards) = 1

\* the subtree of node a, expanded to depth d: a's moves are its legal moves,
\* each with its own board, which holds the position after that move
RECURSIVE TreeIntact(_, _, _)
TreeIntact(h, a, d) ==
  d > 0 =>
    LET b == h.boards[a]
        ml == ListOf(h, b.Moves)
        legal == LegalList(b)
    IN  /\ Len(ml) = Len(legal)
        /\ \A i \in 1..Len(ml) :
             /\ ml[i].Where = legal[i]
             /\ ml[i].MovedBoard \in 2..Len(h.boards)
             /\ ml[i].MovedBoard # a
             /\ \A j \in 1..Len(ml) : j # i => ml[j].MovedBoard # ml[i].MovedBoard
             /\ SameGrid(h.boards[ml[i].MovedBoard], Exec(b, ml[i]).board)
             /\ TreeIntact(h, ml[i].MovedBoard, d - 1)

\* C10: the expansion leaves the expanded board's grid and next alone, and
\* every child, at every level, holds the position its move leads to from
\* its parent, whatever was expanded beside or below it.
C10_BranchesAreIndependent ==
  op = "Search" =>
    /\ SameGrid(Root, prev)
    /\ SameGrid(board, prev)
    /\ TreeIntact(heap, 1, depth)

\* a two-level tree whose root has several children
C10_Witness ==
  /\ op = "Search" /\ depth >= 2
  /\ Len(FoundMoves) >= 3
  /\ Len(heap.boards) > 1 + Len(FoundMoves)

====
